---- MODULE Spec2Model ----
(***************************************************************************)
(* UniFood order-placement pipeline: the AppProvider state (catalog, cart, *)
(* orders, time slots, notifications), the Cart page's checkout handler    *)
(* and the order status updates, as one state machine.                     *)
(*                                                                         *)
(* One browser session is modelled.  The Supabase tables and the payment   *)
(* gateway are external: each call to them is an action input (the call    *)
(* succeeds or returns an error).  The checkout overlay of the Cart page   *)
(* covers the viewport while it is shown, so the handlers of one session   *)
(* run one at a time; the clock and the external services move freely.     *)
(***************************************************************************)
EXTENDS Integers, Sequences, FiniteSets, TLC

VARIABLES
    now,                    \* wall clock, minutes since local midnight
    user,                   \* useAuth().user
    menuItems,              \* AppProvider state: the catalog
    cartItems,              \* AppProvider state: cart lines (CartItem[])
    cartQuantities,         \* AppProvider state: Record<itemId, number>
    orders,                 \* AppProvider state: orders, newest first
    timeSlots,              \* AppProvider state: TimeSlot[]
    notifications,          \* AppProvider state: inbox, newest first
    toast,                  \* the last react-hot-toast message shown
    showCheckout,           \* Cart component state
    selectedTimeSlot,       \* Cart component state ('' is <<>>)
    selectedPaymentMethod,  \* Cart component state (null is "none")
    paymentStep,            \* Cart component state
    isProcessingPayment,    \* Cart component state: handleCheckout in flight
    showSuccess,            \* Cart component state
    payments,               \* payment gateway: successful authorizations so far
    allergenAlert,          \* RecommendationProvider state (null is NoAlert)
    selectedRecItem,        \* StudentDashboard state (null is NoItem)
    confirmations,          \* "Add anyway" clicks on the allergen modal so far
    reviews,                \* AppProvider state: reviews, newest first
    checkouts,              \* handleCheckout invocations awaiting processPayment
    orderToken              \* Cart component state: the token of the success screen

vars == <<now, user, menuItems, cartItems, cartQuantities, orders, timeSlots,
          notifications, toast, showCheckout, selectedTimeSlot,
          selectedPaymentMethod, paymentStep, isProcessingPayment,
          showSuccess, payments, allergenAlert, selectedRecItem,
          confirmations, reviews, checkouts, orderToken>>

cartVars == <<cartItems, cartQuantities>>
pageVars == <<showCheckout, selectedTimeSlot, selectedPaymentMethod,
              paymentStep, isProcessingPayment, showSuccess, checkouts,
              orderToken>>
gateVars == <<allergenAlert, selectedRecItem, confirmations>>

----------------------------------------------------------------------------
(* Bounds of the model *)

MaxQty == 2             \* largest quantity a cart operation is given
MinQty == 0 - 1         \* smallest quantity updateCartQuantity is given
MaxOrders == 2          \* orders created in one behaviour
MaxNotifications == 2   \* inbox entries held in one behaviour
MaxPayments == 2        \* payment authorizations in one behaviour
MaxConfirmations == 2   \* "Add anyway" clicks in one behaviour
MaxReviews == 1         \* reviews added in one behaviour
SnapshotOrders == 1     \* orders placed before the catalog is changed
MaxTokenDraw == 1       \* largest Math.random() draw of generateDailyToken
EditedPrice == 90       \* the price a manager edit sets
RushOrders == 12        \* orders created in the slot rush scenario
OpenMinute == 1289      \* the session starts at 21:29
TickMinutes == 15       \* the clock moves in steps of a quarter of an hour
LastMinute == 1334      \* the clock stops at 22:14
DayEnd == 1439          \* the last minute of a day, 23:59

(* Program constants *)

ClosingHour == 22
ClosingMinute == 0
SlotMinutes == 15
LeadMinutes == 30
SlotCapacity == 20
BookedDraws == 10
ShownSlots == 20
DefaultLimit == 8

NoPaymentId == 0        \* paymentId?: undefined
NoSlot == <<>>          \* selectedTimeSlot: ''
NoMethod == "none"      \* selectedPaymentMethod: null
NoAlert == <<>>         \* allergenAlert: null
NoItem == <<>>          \* selectedRecItem: null
NoToken == [day |-> "", num |-> 0]   \* useState('') of orderToken

----------------------------------------------------------------------------
(* Types and sample data *)

\* averageRating is in tenths (4.5 is 45)
SAMPLE_MENU_ITEMS ==
    << [id |-> "1", price |-> 120, isVeg |-> FALSE, allergens |-> <<"dairy">>,
        isAvailable |-> TRUE, preparationTime |-> 25, averageRating |-> 45,
        reviewCount |-> 23, spiceLevel |-> 3,
        ingredients |-> <<"Chicken", "Basmati Rice", "Spices", "Yogurt", "Onions">>],
       [id |-> "2", price |-> 100, isVeg |-> TRUE, allergens |-> <<"dairy">>,
        isAvailable |-> TRUE, preparationTime |-> 20, averageRating |-> 43,
        reviewCount |-> 18, spiceLevel |-> 2,
        ingredients |-> <<"Paneer", "Tomatoes", "Cream", "Spices", "Onions">>],
       [id |-> "3", price |-> 60, isVeg |-> TRUE, allergens |-> <<>>,
        isAvailable |-> TRUE, preparationTime |-> 15, averageRating |-> 47,
        reviewCount |-> 31, spiceLevel |-> 2,
        ingredients |-> <<"Rice", "Lentils", "Potatoes", "Spices">>],
       [id |-> "4", price |-> 150, isVeg |-> FALSE, allergens |-> <<"dairy">>,
        isAvailable |-> TRUE, preparationTime |-> 20, averageRating |-> 46,
        reviewCount |-> 27, spiceLevel |-> 3,
        ingredients |-> <<"Chicken", "Yogurt", "Spices", "Lemon">>],
       [id |-> "5", price |-> 30, isVeg |-> TRUE, allergens |-> <<>>,
        isAvailable |-> TRUE, preparationTime |-> 5, averageRating |-> 42,
        reviewCount |-> 15, spiceLevel |-> 0,
        ingredients |-> <<"Lime", "Soda Water", "Mint", "Black Salt">>] >>

\* a student whose profile has the allergen option 'Dairy' of the settings page
Student == [id |-> "u1", role |-> "student", allergens |-> <<"Dairy">>,
            dietaryRestrictions |-> <<>>]
\* user: null
NoUser == [id |-> "none", role |-> "none", allergens |-> <<>>,
           dietaryRestrictions |-> <<>>]

ItemInputs == {"1", "2"}        \* the item ids the operations are given
Statuses == {"ordered", "preparing", "ready", "served", "cancelled"}

----------------------------------------------------------------------------
(* Sequence helpers: Array.prototype.filter, map, findIndex, reduce *)

FilterSeq(s, Keep(_)) == SelectSeq(s, Keep)

MapSeq(s, F(_)) == [i \in 1..Len(s) |-> F(s[i])]

HasId(s, id) == \E i \in 1..Len(s) : s[i].id = id

\* the line of an id: Array.prototype.find
LineOf(lines, id) == CHOOSE l \in {lines[i] : i \in 1..Len(lines)} : l.id = id

\* the quantity of an id in the lines (0 when it has no line)
QuantityOf(lines, id) == IF HasId(lines, id) THEN LineOf(lines, id).quantity ELSE 0

SumSeq(s, F(_)) ==
    LET acc[i \in 0..Len(s)] == IF i = 0 THEN 0 ELSE acc[i - 1] + F(s[i])
    IN  acc[Len(s)]

\* { ...a, ...b } on records
Merge(a, b) ==
    [f \in (DOMAIN a) \cup (DOMAIN b) |-> IF f \in DOMAIN b THEN b[f] ELSE a[f]]

----------------------------------------------------------------------------
(* Cart *)

\* const cartTotal = cartItems.reduce(...)
cartTotal == LET Line(item) == item.price * item.quantity
             IN  SumSeq(cartItems, Line)

CatalogItem(id) == CHOOSE m \in {menuItems[i] : i \in 1..Len(menuItems)} : m.id = id

\* the item objects of one id a page can hand to addToCart: the catalog's
\* item (MenuBrowser), an item picked on the dashboard before the catalog
\* changed (selectedRecItem), a line of a past order (recommendations)
HeldItems(id) ==
    {menuItems[i] : i \in {j \in 1..Len(menuItems) : menuItems[j].id = id}}
    \cup {SAMPLE_MENU_ITEMS[i] :
             i \in {j \in 1..Len(SAMPLE_MENU_ITEMS) : SAMPLE_MENU_ITEMS[j].id = id}}
    \cup UNION {{orders[o].items[i] :
                   i \in {j \in 1..Len(orders[o].items) : orders[o].items[j].id = id}}
               : o \in 1..Len(orders)}

\* addToCart appending a line whether or not the id is in the cart
addToCartAppending(item) ==
    /\ cartItems' = Append(cartItems, Merge(item, [quantity |-> 1]))
    /\ cartQuantities' =
          LET prev == IF item.id \in DOMAIN cartQuantities
                      THEN cartQuantities[item.id] ELSE 0
          IN  [k \in (DOMAIN cartQuantities) \cup {item.id} |->
                  IF k = item.id THEN prev + 1 ELSE cartQuantities[k]]

\* addToCart({ ...item, quantity: 1 })
addToCart(item) ==
    /\ cartItems' =
          IF HasId(cartItems, item.id)
          THEN LET Bump(i) == IF i.id = item.id
                              THEN [i EXCEPT !.quantity = i.quantity + 1]
                              ELSE i
               IN  MapSeq(cartItems, Bump)
          ELSE Append(cartItems, Merge(item, [quantity |-> 1]))
    /\ cartQuantities' =
          LET prev == IF item.id \in DOMAIN cartQuantities
                      THEN cartQuantities[item.id] ELSE 0
          IN  [k \in (DOMAIN cartQuantities) \cup {item.id} |->
                  IF k = item.id THEN prev + 1 ELSE cartQuantities[k]]

removeFromCart(itemId) ==
    /\ cartItems' = LET Keep(i) == i.id # itemId IN FilterSeq(cartItems, Keep)
    /\ cartQuantities' = [k \in (DOMAIN cartQuantities) \ {itemId} |-> cartQuantities[k]]

\* updateCartQuantity re-reading the line's price from the catalog
updateCartQuantityRepricing(itemId, quantity) ==
    /\ cartItems' =
          IF quantity = 0
          THEN LET Keep(i) == i.id # itemId IN FilterSeq(cartItems, Keep)
          ELSE LET Set(i) == IF i.id = itemId
                             THEN [i EXCEPT !.quantity = quantity,
                                            !.price = CatalogItem(itemId).price]
                             ELSE i
               IN  MapSeq(cartItems, Set)
    /\ cartQuantities' =
          [k \in (DOMAIN cartQuantities) \cup {itemId} |->
              IF k = itemId THEN quantity ELSE cartQuantities[k]]

updateCartQuantity(itemId, quantity) ==
    /\ cartItems' =
          IF quantity = 0
          THEN LET Keep(i) == i.id # itemId IN FilterSeq(cartItems, Keep)
          ELSE LET Set(i) == IF i.id = itemId
                             THEN [i EXCEPT !.quantity = quantity]
                             ELSE i
               IN  MapSeq(cartItems, Set)
    /\ cartQuantities' =
          [k \in (DOMAIN cartQuantities) \cup {itemId} |->
              IF k = itemId THEN quantity ELSE cartQuantities[k]]

clearCart ==
    /\ cartItems' = <<>>
    /\ cartQuantities' = <<>>

----------------------------------------------------------------------------
(* Time slots *)

\* `${hours.padStart(2,'0')}:${minutes.padStart(2,'0')}` of a minute of the day
TimeString(t) == <<t \div 60, t % 60>>

\* the start minute rounded down to the grid instead of up
StartMinuteFloored(currentMinute) ==
    ((currentMinute + LeadMinutes) \div SlotMinutes) * SlotMinutes

\* Math.ceil((currentMinute + 30) / 15) * 15
StartMinute(currentMinute) ==
    ((currentMinute + LeadMinutes + SlotMinutes - 1) \div SlotMinutes) * SlotMinutes

IsClosed(t) ==
    LET currentHour == t \div 60
        currentMinute == t % 60
    IN  \/ currentHour > ClosingHour
        \/ (currentHour = ClosingHour /\ currentMinute >= ClosingMinute)

\* the minutes of the day the while loop of generateTimeSlots visits
SlotMinutesOfDay(t) ==
    LET first == (t \div 60) * 60 + StartMinute(t % 60)
        endOfDay == ClosingHour * 60 + ClosingMinute
        count == IF first > endOfDay THEN 0
                 ELSE (endOfDay - first) \div SlotMinutes + 1
    IN  [i \in 1..count |-> first + (i - 1) * SlotMinutes]

\* draws[i] is Math.floor(Math.random() * 10) of the i-th slot
generateTimeSlots(draws) ==
    timeSlots' =
        IF IsClosed(now) THEN <<>>
        ELSE LET ts == SlotMinutesOfDay(now)
             IN  [i \in 1..Len(ts) |->
                    [time |-> TimeString(ts[i]), available |-> TRUE,
                     capacity |-> SlotCapacity, booked |-> draws[i]]]

GenerateTimeSlots ==
    /\ \E draws \in [1..Len(SlotMinutesOfDay(now)) -> 0..(BookedDraws - 1)] :
          generateTimeSlots(draws)
    /\ UNCHANGED <<now, user, menuItems, cartVars, orders, notifications, toast,
                   pageVars, payments>>
    /\ UNCHANGED <<gateVars, reviews>>

Tick ==
    /\ now + TickMinutes <= LastMinute
    /\ now' = now + TickMinutes
    /\ UNCHANGED <<user, menuItems, cartVars, orders, timeSlots, notifications,
                   toast, pageVars, payments>>
    /\ UNCHANGED <<gateVars, reviews>>

----------------------------------------------------------------------------
(* Notifications *)

\* addNotification: the row is prepended only when the insert returned it
addNotification(notification, stored) ==
    notifications' = IF stored THEN <<notification>> \o notifications
                     ELSE notifications

----------------------------------------------------------------------------
(* Orders *)

\* generateDailyToken: UTC date of today and a random three-digit number
generateDailyToken(randomNum) == [day |-> "today", num |-> randomNum]

MaxOf(a, b) == IF a >= b THEN a ELSE b

\* cartItems.reduce((total, item) => Math.max(total, item.preparationTime), 0)
EstimatedTime ==
    LET acc[i \in 0..Len(cartItems)] ==
            IF i = 0 THEN 0 ELSE MaxOf(acc[i - 1], cartItems[i].preparationTime)
    IN  acc[Len(cartItems)]

\* createOrder returns data.id (true here) or ''
createOrderReturnsId(inserted) ==
    /\ user # NoUser
    /\ cartItems # <<>>
    /\ inserted

NewOrder(scheduledTime, paymentId, randomNum) ==
    [id |-> Len(orders) + 1,
     userId |-> user.id,
     items |-> cartItems,
     totalAmount |-> cartTotal,
     status |-> "ordered",
     scheduledTime |-> scheduledTime,
     token |-> generateDailyToken(randomNum),
     paymentId |-> paymentId,
     estimatedPreparationTime |-> EstimatedTime]

\* createOrder clearing the cart and notifying before the insert's outcome
\* is known
createOrderClearingFirst(scheduledTime, paymentId, randomNum, inserted, notified) ==
    IF user # NoUser /\ cartItems # <<>>
    THEN /\ orders' = IF inserted
                      THEN <<NewOrder(scheduledTime, paymentId, randomNum)>> \o orders
                      ELSE orders
         /\ clearCart
         /\ addNotification([userId |-> user.id,
                             title |-> "Order Placed Successfully",
                             type |-> "success",
                             read |-> FALSE], notified)
    ELSE UNCHANGED <<orders, cartVars, notifications>>

\* createOrder(scheduledTime, specialInstructions, paymentId): inserted is the
\* outcome of the orders insert, notified that of the notifications insert
createOrder(scheduledTime, paymentId, randomNum, inserted, notified) ==
    IF createOrderReturnsId(inserted)
    THEN /\ orders' = <<NewOrder(scheduledTime, paymentId, randomNum)>> \o orders
         /\ clearCart
         /\ addNotification([userId |-> user.id,
                             title |-> "Order Placed Successfully",
                             type |-> "success",
                             read |-> FALSE], notified)
    ELSE UNCHANGED <<orders, cartVars, notifications>>

\* the toast createOrder itself leaves (prev when it shows none)
createOrderToast(inserted, prev) ==
    IF user # NoUser /\ cartItems # <<>> /\ ~inserted
    THEN "Failed to create order"
    ELSE prev

StatusTitle(status) ==
    CASE status = "preparing" -> "Order Preparing"
      [] status = "ready"     -> "Order Ready"
      [] status = "served"    -> "Order Served"
      [] status = "cancelled" -> "Order Cancelled"
      [] OTHER                -> "Order Ordered"

\* statusMessages[status] is defined
HasStatusMessage(status) == status \in {"preparing", "ready", "served", "cancelled"}

\* updateOrderStatus with the notification's failure reaching its catch block:
\* the status is not applied and the failure toast is shown
updateOrderStatusThrowing(orderId, status, outcome, notified) ==
    LET failed == /\ outcome = "ok"
                  /\ HasId(orders, orderId)
                  /\ HasStatusMessage(status)
                  /\ ~notified
    IN  /\ orders' =
              IF outcome = "ok" /\ ~failed
              THEN LET Set(order) == IF order.id = orderId
                                     THEN [order EXCEPT !.status = status]
                                     ELSE order
                   IN  MapSeq(orders, Set)
              ELSE orders
        /\ IF outcome = "ok" /\ HasId(orders, orderId) /\ HasStatusMessage(status)
           THEN LET order == CHOOSE o \in {orders[i] : i \in 1..Len(orders)} :
                                o.id = orderId
                IN  addNotification([userId |-> order.userId,
                                     title |-> StatusTitle(status),
                                     type |-> IF status = "cancelled" THEN "error"
                                              ELSE "info",
                                     read |-> FALSE], notified)
           ELSE UNCHANGED notifications
        /\ toast' = IF outcome = "throw" \/ failed
                    THEN "Failed to update order status"
                    ELSE toast

\* updateOrderStatus(orderId, status): outcome is that of the orders update
updateOrderStatus(orderId, status, outcome, notified) ==
    /\ orders' =
          IF outcome = "ok"
          THEN LET Set(order) == IF order.id = orderId
                                 THEN [order EXCEPT !.status = status]
                                 ELSE order
               IN  MapSeq(orders, Set)
          ELSE orders
    /\ IF outcome = "ok" /\ HasId(orders, orderId) /\ HasStatusMessage(status)
       THEN LET order == CHOOSE o \in {orders[i] : i \in 1..Len(orders)} :
                            o.id = orderId
            IN  addNotification([userId |-> order.userId,
                                 title |-> StatusTitle(status),
                                 type |-> IF status = "cancelled" THEN "error"
                                          ELSE "info",
                                 read |-> FALSE], notified)
       ELSE UNCHANGED notifications
    /\ toast' = IF outcome = "throw" THEN "Failed to update order status"
                ELSE toast

----------------------------------------------------------------------------
(* Actions of the AppProvider operations *)

Idle == ~isProcessingPayment

AddToCart(item) ==
    /\ Idle
    /\ \A i \in 1..Len(cartItems) :
          cartItems[i].id = item.id => cartItems[i].quantity < MaxQty
    /\ addToCart(item)
    /\ UNCHANGED <<now, user, menuItems, orders, timeSlots, notifications,
                   toast, pageVars, payments>>
    /\ UNCHANGED <<gateVars, reviews>>

RemoveFromCart(id) ==
    /\ Idle
    /\ removeFromCart(id)
    /\ UNCHANGED <<now, user, menuItems, orders, timeSlots, notifications,
                   toast, pageVars, payments>>
    /\ UNCHANGED <<gateVars, reviews>>

UpdateCartQuantity(id, quantity) ==
    /\ Idle
    /\ updateCartQuantity(id, quantity)
    /\ UNCHANGED <<now, user, menuItems, orders, timeSlots, notifications,
                   toast, pageVars, payments>>
    /\ UNCHANGED <<gateVars, reviews>>

ClearCart ==
    /\ Idle
    /\ clearCart
    /\ UNCHANGED <<now, user, menuItems, orders, timeSlots, notifications,
                   toast, pageVars, payments>>
    /\ UNCHANGED <<gateVars, reviews>>

\* updateMenuItem(itemId, updates): updated is the outcome of the store update
updateMenuItem(itemId, updates, updated) ==
    /\ menuItems' =
          IF updated
          THEN LET Set(item) == IF item.id = itemId THEN Merge(item, updates)
                                ELSE item
               IN  MapSeq(menuItems, Set)
          ELSE menuItems
    /\ toast' = IF updated THEN "Menu item updated successfully!"
                ELSE "Failed to update menu item"

\* the catalog store rewriting order lines as well (orders are of no
\* concern to updateMenuItem)
UpdateMenuItemRewritingOrders(id, updates, updated) ==
    /\ updateMenuItem(id, updates, updated)
    /\ orders' =
          IF updated
          THEN LET Line(item) == IF item.id = id THEN Merge(item, updates) ELSE item
                   Set(order) == [order EXCEPT !.items = MapSeq(order.items, Line)]
               IN  MapSeq(orders, Set)
          ELSE orders
    /\ UNCHANGED <<now, user, cartVars, timeSlots, notifications,
                   pageVars, payments>>
    /\ UNCHANGED <<gateVars, reviews>>

UpdateMenuItem(id, updates, updated) ==
    /\ updateMenuItem(id, updates, updated)
    /\ UNCHANGED <<now, user, cartVars, orders, timeSlots, notifications,
                   pageVars, payments>>
    /\ UNCHANGED <<gateVars, reviews>>

\* addMenuItem(item): inserted is the outcome of the store insert, which
\* gives the row its id; a new item starts with average_rating 0
addMenuItem(item, inserted) ==
    /\ menuItems' = IF inserted
                    THEN Append(menuItems,
                                Merge(item, [averageRating |-> 0, reviewCount |-> 0]))
                    ELSE menuItems
    /\ toast' = IF inserted THEN "Menu item added successfully!"
                ELSE "Failed to add menu item"

AddMenuItem(item, inserted) ==
    /\ ~HasId(menuItems, item.id)
    /\ addMenuItem(item, inserted)
    /\ UNCHANGED <<now, user, cartVars, orders, timeSlots, notifications,
                   pageVars, payments, gateVars, reviews>>

\* deleteMenuItem(itemId): deleted is the outcome of the store delete
deleteMenuItem(itemId, deleted) ==
    /\ menuItems' = IF deleted
                    THEN LET Keep(item) == item.id # itemId
                         IN  FilterSeq(menuItems, Keep)
                    ELSE menuItems
    /\ toast' = IF deleted THEN "Menu item deleted successfully!"
                ELSE "Failed to delete menu item"

DeleteMenuItem(itemId, deleted) ==
    /\ deleteMenuItem(itemId, deleted)
    /\ UNCHANGED <<now, user, cartVars, orders, timeSlots, notifications,
                   pageVars, payments, gateVars, reviews>>

\* Math.round(averageRating * 10) / 10 of the item's ratings, in tenths
RoundedAverage(ratings) ==
    LET Rating(r) == r
        sum == SumSeq(ratings, Rating)
    IN  (20 * sum + Len(ratings)) \div (2 * Len(ratings))

\* addReview(menuItemId, rating, comment): inserted is the outcome of the
\* reviews insert
addReview(menuItemId, rating, inserted) ==
    IF user # NoUser /\ inserted
    THEN LET newReview == [userId |-> user.id, menuItemId |-> menuItemId,
                           rating |-> rating]
             Of(r) == r.menuItemId = menuItemId
             RatingOf(r) == r.rating
             itemReviews == Append(FilterSeq(reviews, Of), newReview)
             Set(item) ==
                 IF item.id = menuItemId
                 THEN [item EXCEPT !.averageRating =
                          RoundedAverage(MapSeq(itemReviews, RatingOf)),
                                   !.reviewCount = Len(itemReviews)]
                 ELSE item
         IN  /\ reviews' = <<newReview>> \o reviews
             /\ menuItems' = MapSeq(menuItems, Set)
             /\ toast' = "Review added successfully!"
    ELSE /\ UNCHANGED <<reviews, menuItems>>
         /\ toast' = IF user # NoUser THEN "Failed to add review" ELSE toast

AddReview(menuItemId, rating, inserted) ==
    /\ addReview(menuItemId, rating, inserted)
    /\ UNCHANGED <<now, user, cartVars, orders, timeSlots, notifications,
                   pageVars, payments, gateVars>>

\* a call of createOrder from outside handleCheckout
CreateOrder(scheduledTime, paymentId, randomNum, inserted, notified) ==
    /\ Idle
    /\ createOrder(scheduledTime, paymentId, randomNum, inserted, notified)
    /\ toast' = createOrderToast(inserted, toast)
    /\ UNCHANGED <<now, user, menuItems, timeSlots, pageVars, payments>>
    /\ UNCHANGED <<gateVars, reviews>>

UpdateOrderStatus(orderId, status, outcome, notified) ==
    /\ Idle
    /\ updateOrderStatus(orderId, status, outcome, notified)
    /\ UNCHANGED <<now, user, menuItems, cartVars, timeSlots, pageVars, payments>>
    /\ UNCHANGED <<gateVars, reviews>>

----------------------------------------------------------------------------
(* The Cart page *)

\* the cart view (not the success screen, not the empty-cart screen) is rendered
CartShown == ~showSuccess /\ cartItems # <<>>

OpenCheckout ==
    /\ CartShown /\ ~showCheckout
    /\ showCheckout' = TRUE
    /\ UNCHANGED <<now, user, menuItems, cartVars, orders, timeSlots,
                   notifications, toast, selectedTimeSlot, selectedPaymentMethod,
                   paymentStep, isProcessingPayment, showSuccess, payments>>
    /\ UNCHANGED <<gateVars, reviews, checkouts, orderToken>>

\* a slot button of timeSlots.slice(0, 20), disabled when !slot.available
SelectTimeSlot(i) ==
    /\ CartShown /\ showCheckout /\ paymentStep = "details"
    /\ i \in 1..Len(timeSlots) /\ i <= ShownSlots
    /\ timeSlots[i].available
    /\ selectedTimeSlot' = timeSlots[i].time
    /\ UNCHANGED <<now, user, menuItems, cartVars, orders, timeSlots,
                   notifications, toast, showCheckout, selectedPaymentMethod,
                   paymentStep, isProcessingPayment, showSuccess, payments>>
    /\ UNCHANGED <<gateVars, reviews, checkouts, orderToken>>

ContinueToPayment ==
    /\ CartShown /\ showCheckout /\ paymentStep = "details"
    /\ IF selectedTimeSlot = NoSlot
       THEN /\ toast' = "Please select a pickup time"
            /\ UNCHANGED paymentStep
       ELSE /\ paymentStep' = "payment"
            /\ UNCHANGED toast
    /\ UNCHANGED <<now, user, menuItems, cartVars, orders, timeSlots,
                   notifications, showCheckout, selectedTimeSlot,
                   selectedPaymentMethod, isProcessingPayment, showSuccess,
                   payments>>
    /\ UNCHANGED <<gateVars, reviews, checkouts, orderToken>>

handlePaymentMethodSelect(method) ==
    /\ CartShown /\ showCheckout /\ paymentStep = "payment"
    /\ selectedPaymentMethod' = method
    /\ paymentStep' = "payment"
    /\ UNCHANGED <<now, user, menuItems, cartVars, orders, timeSlots,
                   notifications, toast, showCheckout, selectedTimeSlot,
                   isProcessingPayment, showSuccess, payments>>
    /\ UNCHANGED <<gateVars, reviews, checkouts, orderToken>>

BackToDetails ==
    /\ CartShown /\ showCheckout /\ paymentStep = "payment"
    /\ paymentStep' = "details"
    /\ UNCHANGED <<now, user, menuItems, cartVars, orders, timeSlots,
                   notifications, toast, showCheckout, selectedTimeSlot,
                   selectedPaymentMethod, isProcessingPayment, showSuccess,
                   payments>>
    /\ UNCHANGED <<gateVars, reviews, checkouts, orderToken>>

CloseCheckout ==
    /\ CartShown /\ showCheckout /\ ~isProcessingPayment
    /\ showCheckout' = FALSE
    /\ paymentStep' = "details"
    /\ selectedPaymentMethod' = NoMethod
    /\ UNCHANGED <<now, user, menuItems, cartVars, orders, timeSlots,
                   notifications, toast, selectedTimeSlot, isProcessingPayment,
                   showSuccess, payments>>
    /\ UNCHANGED <<gateVars, reviews, checkouts, orderToken>>

ContinueShopping ==
    /\ showSuccess
    /\ showSuccess' = FALSE
    /\ UNCHANGED <<now, user, menuItems, cartVars, orders, timeSlots,
                   notifications, toast, showCheckout, selectedTimeSlot,
                   selectedPaymentMethod, paymentStep, isProcessingPayment,
                   payments>>
    /\ UNCHANGED <<gateVars, reviews, checkouts, orderToken>>

\* "Pay Now" still rendered while a payment is processing
HandleCheckoutRendered ==
    /\ CartShown /\ showCheckout /\ paymentStep \in {"payment", "processing"}
    /\ selectedPaymentMethod # NoMethod
    /\ IF selectedTimeSlot = NoSlot
       THEN /\ toast' = "Please select a pickup time"
            /\ UNCHANGED <<paymentStep, isProcessingPayment, checkouts>>
       ELSE /\ paymentStep' = "processing"
            /\ isProcessingPayment' = TRUE
            /\ checkouts' = checkouts + 1
            /\ UNCHANGED toast
    /\ UNCHANGED <<now, user, menuItems, cartVars, orders, timeSlots,
                   notifications, showCheckout, selectedTimeSlot,
                   selectedPaymentMethod, showSuccess, payments>>
    /\ UNCHANGED <<gateVars, reviews, orderToken>>

\* handleCheckout up to the await of processPayment ("Pay Now")
HandleCheckout ==
    /\ CartShown /\ showCheckout /\ paymentStep = "payment"
    /\ selectedPaymentMethod # NoMethod
    /\ IF selectedTimeSlot = NoSlot
       THEN /\ toast' = "Please select a pickup time"
            /\ UNCHANGED <<paymentStep, isProcessingPayment, checkouts>>
       ELSE /\ paymentStep' = "processing"
            /\ isProcessingPayment' = TRUE
            /\ checkouts' = checkouts + 1
            /\ UNCHANGED toast
    /\ UNCHANGED <<now, user, menuItems, cartVars, orders, timeSlots,
                   notifications, showCheckout, selectedTimeSlot,
                   selectedPaymentMethod, showSuccess, payments>>
    /\ UNCHANGED <<gateVars, reviews, orderToken>>

\* `TOKEN_${Date.now()}`, the token handleCheckout hands to the receipt
TemporaryToken == [day |-> "TOKEN", num |-> now]

\* generatePaymentReceipt(order, paymentId): the receipt of the order object
\* it is given
generatePaymentReceipt(order, paymentId) ==
    [orderId |-> order.id,
     orderToken |-> order.token,
     paymentId |-> paymentId,
     subtotal |-> order.totalAmount,
     items |-> order.items,
     status |-> "paid"]

\* processPayment resolves with { success: true, paymentId } or { success: false }
processPayment(success) ==
    payments' = IF success THEN payments + 1 ELSE payments

\* paymentFailed with the cart cleared before the payment result is looked at
paymentFailedClearingCart ==
    /\ toast' = "Payment failed. Please try again."
    /\ paymentStep' = "payment"
    /\ clearCart
    /\ UNCHANGED <<orders, notifications, showSuccess,
                   showCheckout, selectedTimeSlot, selectedPaymentMethod>>

\* handleCheckout's else branch: paymentResult.success is false
paymentFailed ==
    /\ toast' = "Payment failed. Please try again."
    /\ paymentStep' = "payment"
    /\ UNCHANGED <<orders, cartVars, notifications, showSuccess,
                   showCheckout, selectedTimeSlot, selectedPaymentMethod>>

\* handleCheckout from the return of processPayment to its end
PaymentReturns(success, randomNum, inserted, notified) ==
    /\ checkouts > 0
    /\ checkouts' = checkouts - 1
    /\ processPayment(success)
    /\ IF success
       THEN /\ createOrder(selectedTimeSlot, payments + 1, randomNum, inserted, notified)
            /\ IF createOrderReturnsId(inserted)
               THEN /\ orderToken' =
                          generatePaymentReceipt(
                              [id |-> Len(orders) + 1,
                               token |-> TemporaryToken,
                               totalAmount |-> cartTotal,
                               items |-> cartItems],
                              payments + 1).orderToken
                    /\ showSuccess' = TRUE
                    /\ showCheckout' = FALSE
                    /\ selectedTimeSlot' = NoSlot
                    /\ selectedPaymentMethod' = NoMethod
                    /\ paymentStep' = "details"
                    /\ toast' = "Order placed successfully!"
               ELSE /\ toast' = "Failed to create order. Please contact support."
                    /\ UNCHANGED <<showSuccess, showCheckout, selectedTimeSlot,
                                   selectedPaymentMethod, paymentStep, orderToken>>
       ELSE paymentFailed /\ UNCHANGED orderToken
    /\ isProcessingPayment' = FALSE
    /\ UNCHANGED <<now, user, menuItems, timeSlots>>
    /\ UNCHANGED <<gateVars, reviews>>

----------------------------------------------------------------------------
(* Recommendations and the allergen gate *)

\* String.prototype.toLowerCase on the strings of the settings page and of
\* the catalog
Lower(str) ==
    CASE str = "Dairy"       -> "dairy"
      [] str = "Nuts"        -> "nuts"
      [] str = "Gluten"      -> "gluten"
      [] str = "Vegetarian"  -> "vegetarian"
      [] str = "Vegan"       -> "vegan"
      [] str = "Gluten-Free" -> "gluten-free"
      [] OTHER               -> str

\* Array.prototype.includes
Includes(s, x) == \E i \in 1..Len(s) : s[i] = x

\* Array.prototype.slice(0, n)
Slice(s, n) == SubSeq(s, 1, IF Len(s) < n THEN Len(s) ELSE n)

\* orders.flatMap(order => order.items)
FlatItems(os) ==
    LET acc[i \in 0..Len(os)] == IF i = 0 THEN <<>> ELSE acc[i - 1] \o os[i].items
    IN  acc[Len(os)]

\* Array.prototype.sort((a, b) => b.averageRating - a.averageRating): a
\* stable sort, highest rating first
SortByRating(s) ==
    LET Insert(sorted, x) ==
            LET before == {i \in 1..Len(sorted) :
                              sorted[i].averageRating >= x.averageRating}
                k == Cardinality(before)
            IN  SubSeq(sorted, 1, k) \o <<x>> \o SubSeq(sorted, k + 1, Len(sorted))
        acc[i \in 0..Len(s)] == IF i = 0 THEN <<>> ELSE Insert(acc[i - 1], s[i])
    IN  acc[Len(s)]

\* the callback of user.dietaryRestrictions.every(...)
Complies(item, restriction) ==
    LET lowerCaseRestriction == Lower(restriction)
    IN  IF lowerCaseRestriction \in {"vegetarian", "veg"} THEN item.isVeg
        ELSE IF lowerCaseRestriction = "vegan"
             THEN /\ item.isVeg
                  /\ ~Includes(item.allergens, "dairy")
                  /\ ~Includes(item.allergens, "egg")
        ELSE IF lowerCaseRestriction = "gluten-free"
             THEN ~Includes(item.allergens, "gluten")
        ELSE TRUE

\* orders.filter(order => order.userId === user.id)
UserOrders == LET Mine(order) == order.userId = user.id IN FilterSeq(orders, Mine)

\* which return statement of getProfileRecommendations is taken
ProfileBranch ==
    IF user = NoUser THEN "no user"
    ELSE IF user.dietaryRestrictions # <<>> THEN "dietary"
    ELSE IF UserOrders # <<>> THEN "history"
    ELSE "no history"

\* the value getProfileRecommendations returns
getProfileRecommendations ==
    CASE ProfileBranch = "dietary" ->
            LET Ok(item) == \A i \in 1..Len(user.dietaryRestrictions) :
                               Complies(item, user.dietaryRestrictions[i])
            IN  FilterSeq(menuItems, Ok)
      [] ProfileBranch = "history" ->
            Slice(FlatItems(UserOrders) \o SortByRating(menuItems), 5)
      [] OTHER -> Slice(menuItems, 5)

\* the array behind menuItems after the call: menuItems.sort sorts in place
menuItemsAfterProfileRecommendations ==
    IF ProfileBranch = "history" THEN SortByRating(menuItems) ELSE menuItems

\* getCartRecommendations(cartItems)
getCartRecommendations(cart) ==
    IF cart = <<>> THEN <<>>
    ELSE LET InCart(item) == HasId(cart, item.id)
             Shares(order) == \E i \in 1..Len(order.items) : InCart(order.items[i])
             NotInCart(item) == ~InCart(item)
         IN  Slice(FilterSeq(FlatItems(FilterSeq(orders, Shares)), NotInCart), 3)

\* /gluten|wheat/i.test(ingredient) on the ingredient strings of the catalog
GlutenOrWheat(ingredient) == ingredient \in {"Wheat Flour", "Gluten"}

AbsDiff(a, b) == IF a >= b THEN a - b ELSE b - a

MinOf(a, b) == IF a <= b THEN a ELSE b

\* user.dietaryRestrictions lower-cased
Dietary == MapSeq(user.dietaryRestrictions, Lower)

\* the score of getRecommendedItems, in tenths
Score(item) ==
    item.averageRating * 2
    + MinOf(item.reviewCount, 50)
    + (IF item.isVeg /\ (Includes(Dietary, "vegetarian") \/ Includes(Dietary, "vegan"))
       THEN 20 ELSE 0)
    + 10 * (2 - AbsDiff(item.spiceLevel, 2))

\* the filter callback of getRecommendedItems
Recommendable(item) ==
    LET avoidAllergens == MapSeq(user.allergens, Lower)
        itemAllergens == MapSeq(item.allergens, Lower)
    IN  IF \E i \in 1..Len(itemAllergens) : Includes(avoidAllergens, itemAllergens[i])
        THEN FALSE
        ELSE IF Includes(Dietary, "vegan") /\ ~item.isVeg THEN FALSE
        ELSE IF Includes(Dietary, "vegetarian") /\ ~item.isVeg THEN FALSE
        ELSE IF /\ Includes(Dietary, "gluten-free")
                /\ \E i \in 1..Len(item.ingredients) : GlutenOrWheat(item.ingredients[i])
             THEN FALSE
        ELSE item.isAvailable

\* .sort((a, b) => b.score - a.score): a stable sort, highest score first
SortByScore(s) ==
    LET Insert(sorted, x) ==
            LET k == Cardinality({i \in 1..Len(sorted) : Score(sorted[i]) >= Score(x)})
            IN  SubSeq(sorted, 1, k) \o <<x>> \o SubSeq(sorted, k + 1, Len(sorted))
        acc[i \in 0..Len(s)] == IF i = 0 THEN <<>> ELSE Insert(acc[i - 1], s[i])
    IN  acc[Len(s)]

\* getRecommendedItems(limit) of the AppProvider
getRecommendedItems(limit) ==
    Slice(SortByScore(FilterSeq(menuItems, Recommendable)), limit)

\* RecommendationContext.checkAllergen: itemAllergens.some(a => userAllergens.includes(a))
contextHasAllergen(item) ==
    \E i \in 1..Len(item.allergens) : Includes(user.allergens, item.allergens[i])

\* StudentDashboard.checkAllergen: both sides lower-cased
dashboardHasAllergen(item) ==
    LET userAllergens == MapSeq(user.allergens, Lower)
        itemAllergens == MapSeq(item.allergens, Lower)
    IN  \E i \in 1..Len(userAllergens) : Includes(itemAllergens, userAllergens[i])

\* onProceed(): the three continuations the pages hand to the gate
RunAction(action, item, quantity) ==
    CASE action = "addToCart" ->
            addToCart(item) /\ UNCHANGED selectedRecItem
      [] action = "updateCartQuantity" ->
            updateCartQuantity(item.id, quantity) /\ UNCHANGED selectedRecItem
      [] action = "setSelectedRecItem" ->
            selectedRecItem' = item /\ UNCHANGED cartVars

\* checkAllergen(item, onProceed) of the RecommendationProvider; the alert it
\* raises has no cancel callback
checkAllergen(item, action, quantity) ==
    IF contextHasAllergen(item)
    THEN /\ allergenAlert' = [item |-> item, action |-> action,
                              quantity |-> quantity, cancel |-> FALSE]
         /\ UNCHANGED <<cartVars, selectedRecItem>>
    ELSE /\ RunAction(action, item, quantity)
         /\ UNCHANGED allergenAlert

\* the dashboard's gate running onProceed at once as well as raising the alert
dashboardCheckAllergenEager(item, action, quantity) ==
    IF dashboardHasAllergen(item)
    THEN /\ allergenAlert' = [item |-> item, action |-> action,
                              quantity |-> quantity, cancel |-> TRUE]
         /\ RunAction(action, item, quantity)
    ELSE /\ RunAction(action, item, quantity)
         /\ UNCHANGED allergenAlert

\* checkAllergen(item, onProceed) of the StudentDashboard, also handed to the
\* MenuBrowser
dashboardCheckAllergen(item, action, quantity) ==
    IF dashboardHasAllergen(item)
    THEN /\ allergenAlert' = [item |-> item, action |-> action,
                              quantity |-> quantity, cancel |-> TRUE]
         /\ UNCHANGED <<cartVars, selectedRecItem>>
    ELSE /\ RunAction(action, item, quantity)
         /\ UNCHANGED allergenAlert

\* Cart.handleAddToCart(item, quantity)
handleAddToCart(item, quantity) ==
    LET isAddingFirstTime == ~HasId(cartItems, item.id)
    IN  IF isAddingFirstTime
        THEN checkAllergen(item, "updateCartQuantity", quantity)
        ELSE /\ updateCartQuantity(item.id, quantity)
             /\ UNCHANGED <<allergenAlert, selectedRecItem>>

\* no modal lies over the page: the allergen modal is rendered on the menu,
\* cart and orders tabs, the item detail modal on every tab
NoModal == allergenAlert = NoAlert /\ selectedRecItem = NoItem

\* MenuBrowser: "Add to Cart", shown while cartQuantities[item.id] is not > 0
MenuBrowserAdd(item) ==
    /\ NoModal
    /\ ~(item.id \in DOMAIN cartQuantities /\ cartQuantities[item.id] > 0)
    /\ dashboardCheckAllergen(item, "addToCart", 1)
    /\ UNCHANGED <<now, user, reviews, menuItems, orders, timeSlots, notifications,
                   toast, pageVars, payments, confirmations>>

\* Cart page: "Add to Cart" of a "Customers also like" card
CartPageAdd(item) ==
    /\ NoModal /\ CartShown /\ ~showCheckout
    /\ Includes(getCartRecommendations(cartItems), item)
    /\ handleAddToCart(item, 1)
    /\ UNCHANGED <<now, user, reviews, menuItems, orders, timeSlots, notifications,
                   toast, pageVars, payments, confirmations>>

\* Cart page: the minus and plus buttons of line i
CartPageStep(i, d) ==
    /\ NoModal /\ CartShown /\ ~showCheckout
    /\ i \in 1..Len(cartItems)
    /\ handleAddToCart(cartItems[i], cartItems[i].quantity + d)
    /\ UNCHANGED <<now, user, reviews, menuItems, orders, timeSlots, notifications,
                   toast, pageVars, payments, confirmations>>

\* the lists of the dashboard overview: recommended and favoriteItems
DashboardItems ==
    LET Popular(item) == item.averageRating >= 45
        recommended == Slice(getProfileRecommendations, 6)
        favoriteItems == Slice(FilterSeq(menuItems, Popular), 3)
    IN  {recommended[i] : i \in 1..Len(recommended)}
        \cup {favoriteItems[i] : i \in 1..Len(favoriteItems)}

\* StudentDashboard renders: const recommended = getProfileRecommendations()
RenderDashboard ==
    /\ menuItems' = menuItemsAfterProfileRecommendations
    /\ UNCHANGED <<now, user, reviews, cartVars, orders, timeSlots, notifications, toast,
                   pageVars, payments, gateVars>>

\* dashboard overview: a click on a recommended or popular item (the allergen
\* modal is not rendered on this tab, so an alert may be pending)
DashboardSelect(item) ==
    /\ selectedRecItem = NoItem
    /\ item \in DashboardItems
    /\ dashboardCheckAllergen(item, "setSelectedRecItem", 1)
    /\ UNCHANGED <<now, user, reviews, menuItems, orders, timeSlots, notifications,
                   toast, pageVars, payments, confirmations>>

\* item detail modal: "Add to cart"
DashboardAdd ==
    /\ selectedRecItem # NoItem
    /\ addToCart(selectedRecItem)
    /\ selectedRecItem' = NoItem
    /\ UNCHANGED <<now, user, reviews, menuItems, orders, timeSlots, notifications,
                   toast, pageVars, payments, allergenAlert, confirmations>>

\* item detail modal: "Cancel"
DashboardDismiss ==
    /\ selectedRecItem # NoItem
    /\ selectedRecItem' = NoItem
    /\ UNCHANGED <<now, user, reviews, menuItems, cartVars, orders, timeSlots,
                   notifications, toast, pageVars, payments, allergenAlert,
                   confirmations>>

\* allergen modal: "Add anyway" calls allergenAlert.proceed
ConfirmAllergen ==
    /\ allergenAlert # NoAlert
    /\ RunAction(allergenAlert.action, allergenAlert.item, allergenAlert.quantity)
    /\ allergenAlert' = NoAlert
    /\ confirmations' = confirmations + 1
    /\ UNCHANGED <<now, user, reviews, menuItems, orders, timeSlots, notifications,
                   toast, pageVars, payments>>

\* allergen modal: "Cancel" calls allergenAlert.cancel?.()
CancelAllergen ==
    /\ allergenAlert # NoAlert
    /\ allergenAlert' = IF allergenAlert.cancel THEN NoAlert ELSE allergenAlert
    /\ UNCHANGED <<now, user, reviews, menuItems, cartVars, orders, timeSlots,
                   notifications, toast, pageVars, payments, selectedRecItem,
                   confirmations>>

----------------------------------------------------------------------------
(* Specifications *)

Init ==
    /\ now = OpenMinute
    /\ user = Student
    /\ menuItems = SAMPLE_MENU_ITEMS
    /\ cartItems = <<>>
    /\ cartQuantities = <<>>
    /\ orders = <<>>
    /\ timeSlots = <<>>
    /\ notifications = <<>>
    /\ toast = ""
    /\ showCheckout = FALSE
    /\ selectedTimeSlot = NoSlot
    /\ selectedPaymentMethod = NoMethod
    /\ paymentStep = "details"
    /\ isProcessingPayment = FALSE
    /\ showSuccess = FALSE
    /\ payments = 0
    /\ allergenAlert = NoAlert
    /\ selectedRecItem = NoItem
    /\ confirmations = 0
    /\ reviews = <<>>
    /\ checkouts = 0
    /\ orderToken = NoToken

SlotLabels == {TimeString(ClosingHour * 60 + ClosingMinute)}
TokenDraws == 0..MaxTokenDraw
Outcomes == {"ok", "error", "throw"}

\* the bounds of one behaviour
RoomForOrder == Len(orders) < MaxOrders /\ Len(notifications) < MaxNotifications
RoomForNotification == Len(notifications) < MaxNotifications

\* the edits and the new item of the manager
MenuEdits == {[price |-> EditedPrice], [allergens |-> <<"gluten">>]}

\* the manager taking an item off the menu
AvailabilityEdits == {[isAvailable |-> FALSE]}

NewItem ==
    [id |-> "6", price |-> 80, isVeg |-> TRUE, allergens |-> <<"gluten">>,
     isAvailable |-> TRUE, preparationTime |-> 10, spiceLevel |-> 1,
     ingredients |-> <<"Wheat Flour", "Potatoes">>]

\* every operation, every input
Next ==
    \/ Tick
    \/ GenerateTimeSlots
    \/ \E id \in ItemInputs : \E item \in HeldItems(id) : AddToCart(item)
    \/ \E id \in ItemInputs : RemoveFromCart(id)
    \/ \E id \in ItemInputs, q \in MinQty..MaxQty : UpdateCartQuantity(id, q)
    \/ ClearCart
    \/ \E id \in ItemInputs, ok \in BOOLEAN :
          UpdateMenuItem(id, [price |-> EditedPrice], ok)
    \/ \E t \in SlotLabels, p \in 0..MaxPayments, n \in TokenDraws,
          ins \in BOOLEAN, ntf \in BOOLEAN :
          RoomForOrder /\ CreateOrder(t, p, n, ins, ntf)
    \/ \E o \in 1..MaxOrders, st \in Statuses, out \in Outcomes, ntf \in BOOLEAN :
          RoomForNotification /\ UpdateOrderStatus(o, st, out, ntf)
    \/ OpenCheckout
    \/ \E i \in 1..Len(timeSlots) : SelectTimeSlot(i)
    \/ ContinueToPayment
    \/ handlePaymentMethodSelect("card")
    \/ BackToDetails
    \/ CloseCheckout
    \/ ContinueShopping
    \/ RoomForOrder /\ payments < MaxPayments /\ HandleCheckout
    \/ \E ok \in BOOLEAN, n \in TokenDraws, ins \in BOOLEAN, ntf \in BOOLEAN :
          PaymentReturns(ok, n, ins, ntf)
    \/ \E updates \in MenuEdits, id \in ItemInputs, ok \in BOOLEAN :
          UpdateMenuItem(id, updates, ok)
    \/ \E ok \in BOOLEAN : AddMenuItem(NewItem, ok)
    \/ \E id \in ItemInputs, ok \in BOOLEAN : DeleteMenuItem(id, ok)
    \/ \E id \in ItemInputs, rating \in 1..5, ok \in BOOLEAN :
          Len(reviews) < MaxReviews /\ AddReview(id, rating, ok)
    \/ \E i \in 1..Len(menuItems) : MenuBrowserAdd(menuItems[i])
    \/ \E i \in 1..Len(getCartRecommendations(cartItems)) :
          CartPageAdd(getCartRecommendations(cartItems)[i])
    \/ \E i \in 1..Len(cartItems), d \in {0 - 1, 1} :
          cartItems[i].quantity + d <= MaxQty /\ CartPageStep(i, d)
    \/ RenderDashboard
    \/ \E item \in DashboardItems : DashboardSelect(item)
    \/ /\ selectedRecItem # NoItem
       /\ QuantityOf(cartItems, selectedRecItem.id) < MaxQty
       /\ DashboardAdd
    \/ DashboardDismiss
    \/ confirmations < MaxConfirmations /\ ConfirmAllergen
    \/ CancelAllergen

Spec == Init /\ [][Next]_vars

\* the cart and the catalog: cart operations interleaved with price edits
\* (ClearCart is also what createOrder does to the cart)
NextCart ==
    \/ \E id \in ItemInputs : \E item \in HeldItems(id) : AddToCart(item)
    \/ \E id \in ItemInputs : RemoveFromCart(id)
    \/ \E id \in ItemInputs, q \in MinQty..MaxQty : UpdateCartQuantity(id, q)
    \/ ClearCart
    \/ \E id \in ItemInputs, ok \in BOOLEAN :
          UpdateMenuItem(id, [price |-> EditedPrice], ok)

SpecCart == Init /\ [][NextCart]_vars

\* the order operations of the AppProvider: createOrder and updateOrderStatus
NextOrders ==
    \/ cartItems = <<>> /\ AddToCart(CatalogItem("1"))
    \/ \E t \in SlotLabels, p \in 0..1, n \in TokenDraws,
          ins \in BOOLEAN, ntf \in BOOLEAN :
          RoomForOrder /\ CreateOrder(t, p, n, ins, ntf)
    \/ \E o \in 1..MaxOrders, st \in Statuses, out \in Outcomes, ntf \in BOOLEAN :
          RoomForNotification /\ UpdateOrderStatus(o, st, out, ntf)

SpecOrders == Init /\ [][NextOrders]_vars

\* the checkout of the Cart page, with the clock and the slot set
NextCheckout ==
    \/ Tick
    \/ timeSlots = <<>> /\ GenerateTimeSlots     \* the mount effect
    \/ AddToCart(CatalogItem("1"))
    \/ OpenCheckout
    \/ \E i \in 1..Len(timeSlots) : SelectTimeSlot(i)
    \/ ContinueToPayment
    \/ handlePaymentMethodSelect("card")
    \/ BackToDetails
    \/ CloseCheckout
    \/ ContinueShopping
    \/ RoomForOrder /\ payments < MaxPayments /\ HandleCheckout
    \/ \E ok \in BOOLEAN, ins \in BOOLEAN, ntf \in BOOLEAN :
          PaymentReturns(ok, 0, ins, ntf)

SpecCheckout == Init /\ [][NextCheckout]_vars

\* a rush on one slot: the slot set is generated and orders are placed for it
NextRush ==
    \/ GenerateTimeSlots
    \/ cartItems = <<>> /\ AddToCart(CatalogItem("1"))
    \/ \E i \in 1..Len(timeSlots), ins \in BOOLEAN, ntf \in BOOLEAN :
          /\ Len(orders) < RushOrders
          /\ CreateOrder(timeSlots[i].time, NoPaymentId, 0, ins, ntf)

SpecRush == Init /\ [][NextRush]_vars

\* the pages that add items, behind their allergen gates
GateItems == {"1", "3"}         \* an item with the allergen dairy, one with none

GateUsers ==
    {Student, [Student EXCEPT !.allergens = <<"dairy", "nuts">>],
     [Student EXCEPT !.allergens = <<>>]}

\* an order of an earlier session, as loadDataFromSupabase reads it
PastOrder ==
    [id |-> 1,
     userId |-> Student.id,
     items |-> << Merge(SAMPLE_MENU_ITEMS[1], [quantity |-> 1]),
                  Merge(SAMPLE_MENU_ITEMS[3], [quantity |-> 1]) >>,
     totalAmount |-> 180,
     status |-> "served",
     scheduledTime |-> TimeString(ClosingHour * 60 + ClosingMinute),
     token |-> [day |-> "yesterday", num |-> 0],
     paymentId |-> NoPaymentId,
     estimatedPreparationTime |-> 25]

InitGate ==
    /\ now = OpenMinute
    /\ user \in GateUsers
    /\ menuItems = SAMPLE_MENU_ITEMS
    /\ cartItems = <<>>
    /\ cartQuantities = <<>>
    /\ orders = <<PastOrder>>
    /\ timeSlots = <<>>
    /\ notifications = <<>>
    /\ toast = ""
    /\ showCheckout = FALSE
    /\ selectedTimeSlot = NoSlot
    /\ selectedPaymentMethod = NoMethod
    /\ paymentStep = "details"
    /\ isProcessingPayment = FALSE
    /\ showSuccess = FALSE
    /\ payments = 0
    /\ allergenAlert = NoAlert
    /\ selectedRecItem = NoItem
    /\ confirmations = 0
    /\ reviews = <<>>
    /\ checkouts = 0
    /\ orderToken = NoToken

NextGate ==
    \/ \E id \in GateItems : MenuBrowserAdd(CatalogItem(id))
    \/ \E i \in 1..Len(getCartRecommendations(cartItems)) :
          CartPageAdd(getCartRecommendations(cartItems)[i])
    \/ \E i \in 1..Len(cartItems), d \in {0 - 1, 1} :
          cartItems[i].quantity + d <= MaxQty /\ CartPageStep(i, d)
    \/ RenderDashboard
    \/ \E item \in DashboardItems : item.id \in GateItems /\ DashboardSelect(item)
    \/ /\ selectedRecItem # NoItem
       /\ QuantityOf(cartItems, selectedRecItem.id) < MaxQty
       /\ DashboardAdd
    \/ DashboardDismiss
    \/ confirmations < MaxConfirmations /\ ConfirmAllergen
    \/ CancelAllergen
    \/ \E id \in GateItems : RemoveFromCart(id)

SpecGate == InitGate /\ [][NextGate]_vars

\* orders and the catalog: orders are placed, then the catalog and the cart
\* are changed
NextSnapshot ==
    \/ HasId(menuItems, "1") /\ AddToCart(CatalogItem("1"))
    \/ RemoveFromCart("1")
    \/ \E q \in 1..MaxQty : UpdateCartQuantity("1", q)
    \/ ClearCart
    \/ \E t \in SlotLabels :
          Len(orders) < SnapshotOrders /\ CreateOrder(t, NoPaymentId, 0, TRUE, FALSE)
    \/ \E updates \in MenuEdits, ok \in BOOLEAN : UpdateMenuItem("1", updates, ok)
    \/ AddMenuItem(NewItem, TRUE)
    \/ DeleteMenuItem("1", TRUE)
    \/ Len(reviews) < MaxReviews /\ AddReview("1", 5, TRUE)

SpecSnapshot == Init /\ [][NextSnapshot]_vars

\* profile recommendations for users with dietary restrictions, over a
\* catalog the manager edits
DietUsers ==
    {[Student EXCEPT !.allergens = <<>>, !.dietaryRestrictions = d] :
        d \in {<<"Vegetarian">>, <<"Vegan">>, <<"Gluten-Free">>,
               <<"Vegan", "Gluten-Free">>}}

InitRecommend ==
    /\ now = OpenMinute
    /\ user \in DietUsers
    /\ menuItems = SAMPLE_MENU_ITEMS
    /\ cartItems = <<>>
    /\ cartQuantities = <<>>
    /\ orders = <<>>
    /\ timeSlots = <<>>
    /\ notifications = <<>>
    /\ toast = ""
    /\ showCheckout = FALSE
    /\ selectedTimeSlot = NoSlot
    /\ selectedPaymentMethod = NoMethod
    /\ paymentStep = "details"
    /\ isProcessingPayment = FALSE
    /\ showSuccess = FALSE
    /\ payments = 0
    /\ allergenAlert = NoAlert
    /\ selectedRecItem = NoItem
    /\ confirmations = 0
    /\ reviews = <<>>
    /\ checkouts = 0
    /\ orderToken = NoToken

NextRecommend ==
    \/ RenderDashboard
    \/ \E id \in ItemInputs, updates \in MenuEdits, ok \in BOOLEAN :
          UpdateMenuItem(id, updates, ok)
    \/ \E ok \in BOOLEAN : AddMenuItem(NewItem, ok)
    \/ \E id \in ItemInputs, ok \in BOOLEAN : DeleteMenuItem(id, ok)
    \/ \E id \in ItemInputs, rating \in {1, 5}, ok \in BOOLEAN :
          Len(reviews) < MaxReviews /\ AddReview(id, rating, ok)
    \/ \E id \in ItemInputs, updates \in AvailabilityEdits, ok \in BOOLEAN :
          UpdateMenuItem(id, updates, ok)

SpecRecommend == InitRecommend /\ [][NextRecommend]_vars

----------------------------------------------------------------------------
(* Slot capacity *)

OrdersFor(os, time) == Cardinality({i \in 1..Len(os) : os[i].scheduledTime = time})

\* the reservations of a slot: those it was generated with and the orders
\* placed for it since
Granted(slot) == slot.booked + OrdersFor(orders, slot.time)

\* C1: every slot has 0 <= booked <= capacity, booked counting the
\* reservations granted for the slot.
C1_BookedWithinCapacity ==
    \A i \in 1..Len(timeSlots) :
        0 <= Granted(timeSlots[i]) /\ Granted(timeSlots[i]) <= timeSlots[i].capacity

\* C2: of the checkouts for one slot exactly as many succeed as the slot has
\* room for; a checkout for a slot with no room left is refused, it creates
\* no order for that slot.
C2_FullSlotRefuses ==
    [][\A i \in 1..Len(timeSlots) :
          Granted(timeSlots[i]) >= timeSlots[i].capacity
             => OrdersFor(orders', timeSlots[i].time)
                   = OrdersFor(orders, timeSlots[i].time)]_vars

----------------------------------------------------------------------------
(* Order records *)

\* C3: the order records hold at most one order per payment reference.
C3_OneOrderPerPaymentRef ==
    \A i, j \in 1..Len(orders) :
        (i # j /\ orders[i].paymentId # NoPaymentId)
            => orders[i].paymentId # orders[j].paymentId

StatusOf(os, id) == (CHOOSE o \in {os[i] : i \in 1..Len(os)} : o.id = id).status

OrderSet == {orders[i] : i \in 1..Len(orders)}

Terminal == {"served", "cancelled"}

\* C4: once an order is served or cancelled its status never changes again.
C4_TerminalIsFinal ==
    [][\A o \in OrderSet :
          o.status \in Terminal => StatusOf(orders', o.id) = o.status]_vars

LegalEdges ==
    { <<"ordered", "preparing">>, <<"preparing", "ready">>, <<"ready", "served">>,
      <<"ordered", "cancelled">>, <<"preparing", "cancelled">>,
      <<"ready", "cancelled">> }

\* C5: every change of an order's status is an edge of the legal graph
\* ordered -> preparing -> ready -> served, cancelled from the first three.
C5_OnlyLegalEdges ==
    [][\A o \in OrderSet :
          StatusOf(orders', o.id) # o.status
             => <<o.status, StatusOf(orders', o.id)>> \in LegalEdges]_vars

\* C6: a status transition adds one notification, for the order's owner, of
\* type error when cancelled and info/success otherwise; a step that leaves
\* the stored orders as they were adds none.
C6_NotificationPerTransition ==
    [][/\ \A o \in OrderSet :
             (StatusOf(orders', o.id) # o.status /\ notifications' # notifications)
                => /\ Tail(notifications') = notifications
                   /\ Head(notifications').userId = o.userId
                   /\ Head(notifications').type =
                         IF StatusOf(orders', o.id) = "cancelled" THEN "error"
                         ELSE "info"
       /\ orders' = orders => notifications' = notifications]_vars

----------------------------------------------------------------------------
(* Checkout *)

\* handleCheckout ended without an authorized payment
PaymentFailedStep ==
    isProcessingPayment /\ ~isProcessingPayment' /\ payments' = payments

\* C7: when payment authorization fails, no order is created, the cart is
\* left as it was and the slots' booked counts are what they were.
C7_FailedPaymentChangesNothing ==
    [][PaymentFailedStep
          => /\ orders' = orders
             /\ cartItems' = cartItems
             /\ cartQuantities' = cartQuantities
             /\ timeSlots' = timeSlots]_vars

\* a checkout failed on payment: the cart and the slot set are still there
C7_Witness ==
    /\ toast = "Payment failed. Please try again."
    /\ ~isProcessingPayment
    /\ cartItems # <<>>
    /\ timeSlots # <<>>
    /\ selectedTimeSlot # NoSlot

MinuteOfDay(time) == time[1] * 60 + time[2]

\* the slot exists, has room and is not in the past
Reservable(time) ==
    \E i \in 1..Len(timeSlots) :
        /\ timeSlots[i].time = time
        /\ timeSlots[i].booked < timeSlots[i].capacity
        /\ MinuteOfDay(time) >= now

\* C8: no payment is attempted for a checkout whose slot is missing, full or
\* in the past.
C8_NoPaymentForUnreservableSlot ==
    [][(~isProcessingPayment /\ isProcessingPayment')
          => Reservable(selectedTimeSlot)]_vars

\* the authorized payments no order record carries
Unattached ==
    {p \in 1..payments : \A i \in 1..Len(orders) : orders[i].paymentId # p}

\* C9: a payment whose order could not be stored is reused by the retry: at
\* most one authorized payment is without an order.
C9_NoSecondAuthorization == Cardinality(Unattached) <= 1

----------------------------------------------------------------------------
(* Cart total *)

CatalogPrice(id) == CatalogItem(id).price

\* C10 as stated: cartTotal is the sum of quantity times the catalog's current
\* price over the cart lines.
C10_TotalAtCatalogPrice ==
    cartTotal = LET Line(item) == item.quantity * CatalogPrice(item.id)
                IN  SumSeq(cartItems, Line)

\* C10 amended: a cart line carries the price of the item object it was
\* created from and keeps it; cartTotal is the sum of quantity times that
\* price, so a later price edit does not change it.
C10_TotalAtPriceWhenAdded ==
    [][/\ \A i \in 1..Len(cartItems') :
             IF HasId(cartItems, cartItems'[i].id)
             THEN cartItems'[i].price = LineOf(cartItems, cartItems'[i].id).price
             ELSE cartItems'[i].price
                     \in {item.price : item \in HeldItems(cartItems'[i].id)}
       /\ menuItems' # menuItems => cartTotal' = cartTotal]_vars

\* a line whose item was re-priced after it was added
C10_Witness ==
    \E i \in 1..Len(cartItems) :
        /\ cartItems[i].quantity > 0
        /\ cartItems[i].price # CatalogPrice(cartItems[i].id)

----------------------------------------------------------------------------
(* Cart lines *)

\* C11: no cart line has a quantity <= 0 after any sequence of cart
\* operations; setting a quantity <= 0 removes the line.
C11_NoNonPositiveLine ==
    \A i \in 1..Len(cartItems) : cartItems[i].quantity > 0

----------------------------------------------------------------------------
(* Order totals *)

\* amount: cartTotal * 1.05 of handleCheckout, in hundredths of the currency
\* unit (prices are whole units, so the product is exact)
WithTax(amount) == amount * 105

SnapshotSubtotal(order) ==
    LET Line(item) == item.quantity * item.price
    IN  SumSeq(order.items, Line)

\* C12: every order's stored totalAmount is its snapshot subtotal times 1.05,
\* the amount that was authorized for payment.
C12_TotalIncludesTax ==
    \A i \in 1..Len(orders) :
        orders[i].totalAmount * 100 = WithTax(SnapshotSubtotal(orders[i]))

----------------------------------------------------------------------------
(* Pickup tokens *)

\* C13: no two orders created on the same business day carry the same
\* pickup token.
C13_TokenUniquePerDay ==
    \A i, j \in 1..Len(orders) :
        (i # j /\ orders[i].token.day = orders[j].token.day)
            => orders[i].token.num # orders[j].token.num

----------------------------------------------------------------------------
(* Allergen gate *)

SetOf(s) == {s[i] : i \in 1..Len(s)}

\* the item's and the user's allergen sets intersect, letter case aside
Intersects(item) ==
    {Lower(a) : a \in SetOf(item.allergens)}
        \cap {Lower(a) : a \in SetOf(user.allergens)} # {}

\* C14: at every entry point that adds an item (menu browser, dashboard, cart
\* page) the gate blocks exactly when the item's and the user's allergen sets
\* intersect under case-insensitive comparison.
C14_GateBlocksOnIntersection ==
    /\ \A item \in SetOf(menuItems) \cup DashboardItems :
          dashboardHasAllergen(item) <=> Intersects(item)
    /\ \A item \in SetOf(getCartRecommendations(cartItems)) :
          contextHasAllergen(item) <=> Intersects(item)

\* the pending action of an alert has been applied once in this step
ProceededOnce(alert) ==
    CASE alert.action = "addToCart" ->
            /\ QuantityOf(cartItems', alert.item.id)
                  = QuantityOf(cartItems, alert.item.id) + 1
            /\ selectedRecItem' = selectedRecItem
      [] alert.action = "updateCartQuantity" ->
            /\ cartQuantities'[alert.item.id] = alert.quantity
            /\ selectedRecItem' = selectedRecItem
      [] alert.action = "setSelectedRecItem" ->
            /\ selectedRecItem' = alert.item
            /\ cartItems' = cartItems /\ cartQuantities' = cartQuantities

\* C15: the action of a blocked attempt is not run when the alert is raised
\* or cancelled; it is run once by each confirmation, which needs a pending
\* alert and clears it.
C15_ProceedsOncePerConfirmation ==
    [][/\ (confirmations' = confirmations /\ allergenAlert' # allergenAlert)
             => /\ cartItems' = cartItems
                /\ cartQuantities' = cartQuantities
                /\ selectedRecItem' = selectedRecItem
       /\ confirmations' # confirmations
             => /\ confirmations' = confirmations + 1
                /\ allergenAlert # NoAlert
                /\ allergenAlert' = NoAlert
                /\ ProceededOnce(allergenAlert)]_vars

\* a blocked item entered the cart after its alert was confirmed
C15_Witness ==
    /\ confirmations > 0
    /\ allergenAlert = NoAlert
    /\ \E i \in 1..Len(cartItems) : Intersects(cartItems[i])

----------------------------------------------------------------------------
(* Order snapshots *)

OrderOf(os, id) == CHOOSE o \in {os[i] : i \in 1..Len(os)} : o.id = id

\* C16: the item snapshot and the totalAmount of an order are the same after
\* every step: no catalog operation and no cart operation changes them.
C16_SnapshotUnchanged ==
    [][\A o \in OrderSet :
          /\ HasId(orders', o.id)
          /\ OrderOf(orders', o.id).items = o.items
          /\ OrderOf(orders', o.id).totalAmount = o.totalAmount]_vars

\* an order whose line differs from the catalog's item of that id, or whose
\* item has left the catalog, while the cart holds lines again
C16_Witness ==
    /\ cartItems # <<>>
    /\ \E o \in OrderSet : \E i \in 1..Len(o.items) :
          \/ ~HasId(menuItems, o.items[i].id)
          \/ /\ HasId(menuItems, o.items[i].id)
             /\ \/ CatalogItem(o.items[i].id).price # o.items[i].price
                \/ CatalogItem(o.items[i].id).allergens # o.items[i].allergens

----------------------------------------------------------------------------
(* Recommendations *)

\* C17: the recommendation functions are read-only: in a session of page
\* actions and recommendation calls (no catalog edit, no order placed) the
\* catalog, its element order included, and the orders stay as they were.
C17_RecommendationsReadOnly ==
    [][menuItems' = menuItems /\ orders' = orders]_vars

\* the item meets one dietary restriction of the user
Satisfies(item, restriction) ==
    LET itemAllergens == {Lower(a) : a \in SetOf(item.allergens)}
    IN  /\ restriction \in {"vegetarian", "vegan"} => item.isVeg
        /\ restriction = "vegan" => itemAllergens \cap {"dairy", "egg"} = {}
        /\ restriction = "gluten-free" => "gluten" \notin itemAllergens

\* C18: for a user with dietary restrictions every item of the profile
\* recommendation meets every restriction: vegetarian and vegan need isVeg,
\* vegan also no dairy or egg allergen, gluten-free no gluten allergen.
C18_RecommendedItemsComply ==
    Dietary # <<>>
       => \A item \in SetOf(getProfileRecommendations)
                         \cup SetOf(getRecommendedItems(DefaultLimit)) :
             \A r \in SetOf(Dietary) : Satisfies(item, r)

----------------------------------------------------------------------------
(* Cart lines per item *)

\* C19: the cart holds at most one line per item id; a step adds at most one
\* line, and only for an id the cart did not hold (adding an item that is in
\* the cart changes that line's quantity instead).
C19_OneLinePerItem ==
    [][/\ \A i, j \in 1..Len(cartItems') :
             cartItems'[i].id = cartItems'[j].id => i = j
       /\ Len(cartItems') > Len(cartItems)
             => /\ Len(cartItems') = Len(cartItems) + 1
                /\ ~HasId(cartItems, cartItems'[Len(cartItems')].id)]_vars

\* the same item added twice: one line, quantity 2, total twice its price
C19_Witness ==
    /\ Len(cartItems) = 1
    /\ cartItems[1].quantity = 2
    /\ cartQuantities[cartItems[1].id] = 2
    /\ cartTotal = 2 * cartItems[1].price

----------------------------------------------------------------------------
(* Adding to the cart *)

CountOf(quantities, id) == IF id \in DOMAIN quantities THEN quantities[id] ELSE 0

\* C20: an add of a positive delta, on whichever page, gives a new line with
\* quantity delta when the cart has no line of the item and raises the
\* line's quantity by delta otherwise (an add is a step that raises the
\* item's count in cartQuantities by delta).
C20_AddCreatesOrIncrements ==
    [][\A id \in DOMAIN cartQuantities' :
          (CountOf(cartQuantities, id) >= 0
             /\ cartQuantities'[id] > CountOf(cartQuantities, id))
          => /\ HasId(cartItems', id)
             /\ QuantityOf(cartItems', id)
                   = QuantityOf(cartItems, id)
                        + (cartQuantities'[id] - CountOf(cartQuantities, id))]_vars

----------------------------------------------------------------------------
(* Persistence before side effects *)

\* handleCheckout ended with the payment authorized and no order stored
PersistFailedStep ==
    isProcessingPayment /\ ~isProcessingPayment' /\ payments' # payments
        /\ orders' = orders

\* C21: the cart is cleared and the "order placed" notification is emitted
\* only in a step that adds the order; when the order could not be stored the
\* cart, the orders and the notifications are as they were.
C21_SideEffectsAfterPersistence ==
    [][/\ orders' = orders
             => /\ notifications' = notifications
                /\ cartItems' = <<>> => cartItems = <<>>
       /\ PersistFailedStep
             => /\ cartItems' = cartItems
                /\ cartQuantities' = cartQuantities
                /\ notifications' = notifications]_vars

\* a checkout whose payment was authorized and whose order was not stored:
\* the cart is still there
C21_Witness ==
    /\ toast = "Failed to create order. Please contact support."
    /\ payments > 0
    /\ orders = <<>>
    /\ cartItems # <<>>
    /\ notifications = <<>>

----------------------------------------------------------------------------
(* The slot grid *)

\* the slot set generated at any minute of the day; every slot draws the same
\* booked count
GenerateTimeSlotsAt ==
    /\ \E d \in 0..(BookedDraws - 1) :
          generateTimeSlots([i \in 1..Len(SlotMinutesOfDay(now)) |-> d])
    /\ UNCHANGED <<now, user, menuItems, cartVars, orders, notifications, toast,
                   pageVars, payments, gateVars, reviews>>

InitSlots ==
    /\ now \in 0..DayEnd
    /\ user = Student
    /\ menuItems = SAMPLE_MENU_ITEMS
    /\ cartItems = <<>>
    /\ cartQuantities = <<>>
    /\ orders = <<>>
    /\ timeSlots = <<>>
    /\ notifications = <<>>
    /\ toast = ""
    /\ showCheckout = FALSE
    /\ selectedTimeSlot = NoSlot
    /\ selectedPaymentMethod = NoMethod
    /\ paymentStep = "details"
    /\ isProcessingPayment = FALSE
    /\ showSuccess = FALSE
    /\ payments = 0
    /\ allergenAlert = NoAlert
    /\ selectedRecItem = NoItem
    /\ confirmations = 0
    /\ reviews = <<>>
    /\ checkouts = 0
    /\ orderToken = NoToken

NextSlots == GenerateTimeSlotsAt

SpecSlots == InitSlots /\ [][NextSlots]_vars

\* the minute of the day a slot label stands for
MinuteOf(time) == time[1] * 60 + time[2]

Closing == ClosingHour * 60 + ClosingMinute

OnGrid(slots, t) ==
    /\ \A i \in 1..Len(slots) :
          /\ MinuteOf(slots[i].time) % SlotMinutes = 0
          /\ t + LeadMinutes <= MinuteOf(slots[i].time)
          /\ MinuteOf(slots[i].time) <= Closing
    /\ \A i \in 1..(Len(slots) - 1) :
          MinuteOf(slots[i + 1].time) = MinuteOf(slots[i].time) + SlotMinutes
    /\ slots # <<>>
          => /\ MinuteOf(slots[1].time) - SlotMinutes < t + LeadMinutes
             /\ MinuteOf(slots[Len(slots)].time) = Closing
    /\ t >= Closing => slots = <<>>
    /\ t + LeadMinutes <= Closing => slots # <<>>

\* C22: the slots generated at minute now lie on the 15-minute grid between
\* now + 30 and closing, 15 minutes apart in ascending order, from the first
\* grid point at or after now + 30 through closing; none at or past closing.
C22_SlotsOnGrid ==
    [][timeSlots' # timeSlots => OnGrid(timeSlots', now)]_vars

\* slots generated at a minute off the grid: the first one is rounded up
C22_Witness ==
    /\ now % SlotMinutes = 7
    /\ Len(timeSlots) > 1
    /\ MinuteOf(timeSlots[1].time) = now + LeadMinutes + 8

----------------------------------------------------------------------------
(* Slot occupancy *)

\* C23: each slot's booked count equals the number of orders that exist for
\* the slot, when the slot set is generated and after every order placed
\* since.
C23_BookedCountsOrders ==
    \A i \in 1..Len(timeSlots) :
        timeSlots[i].booked = OrdersFor(orders, timeSlots[i].time)

\* C24: a slot's available flag is true exactly when the slot has room
\* (booked < capacity) and its time is not in the past.
C24_AvailableIffRoomAndNotPast ==
    \A i \in 1..Len(timeSlots) :
        timeSlots[i].available
            <=> /\ timeSlots[i].booked < timeSlots[i].capacity
                /\ MinuteOf(timeSlots[i].time) >= now

----------------------------------------------------------------------------
(* Notification failures *)

\* one order placed and its status updated, with every outcome of the stores
NextNotify ==
    \/ cartItems = <<>> /\ AddToCart(CatalogItem("1"))
    \/ \E t \in SlotLabels, ins \in BOOLEAN, ntf \in BOOLEAN :
          /\ Len(orders) < SnapshotOrders
          /\ RoomForNotification
          /\ CreateOrder(t, NoPaymentId, 0, ins, ntf)
    \/ \E o \in 1..SnapshotOrders, st \in Statuses, out \in Outcomes,
          ntf \in BOOLEAN :
          RoomForNotification /\ UpdateOrderStatus(o, st, out, ntf)

SpecNotify == Init /\ [][NextNotify]_vars

\* C25: a notification that could not be stored neither undoes nor blocks
\* the change it reports: the order is created, its id returned and the cart
\* cleared; the status update is applied.
C25_NotificationFailureKeepsChange ==
    [][/\ \A t \in SlotLabels :
             cartItems # <<>> /\ CreateOrder(t, NoPaymentId, 0, TRUE, FALSE)
                => /\ createOrderReturnsId(TRUE)
                   /\ orders' = <<NewOrder(t, NoPaymentId, 0)>> \o orders
                   /\ cartItems' = <<>>
                   /\ cartQuantities' = <<>>
                   /\ notifications' = notifications
       /\ \A o \in 1..SnapshotOrders, st \in Statuses :
             UpdateOrderStatus(o, st, "ok", FALSE)
                => /\ Len(orders') = Len(orders)
                   /\ \A i \in 1..Len(orders) :
                         orders'[i].status = IF orders[i].id = o THEN st
                                             ELSE orders[i].status
                   /\ notifications' = notifications
                   /\ toast' = toast]_vars

\* an order was placed and set to ready, and neither notification was stored
C25_Witness ==
    /\ orders # <<>>
    /\ orders[1].status = "ready"
    /\ cartItems = <<>>
    /\ notifications = <<>>
    /\ toast = ""

----------------------------------------------------------------------------
(* Overlapping checkouts *)

----------------------------------------------------------------------------
(* Availability and size of the profile recommendation *)

\* C27: for a user with dietary restrictions the profile recommendation
\* holds available items only, and at most DefaultLimit of them.
C27_RecommendedAvailableAndFew ==
    Dietary # <<>>
       => /\ \A item \in SetOf(getProfileRecommendations) : item.isAvailable
          /\ Len(getProfileRecommendations) <= DefaultLimit

----------------------------------------------------------------------------
(* The two views of the cart *)

\* C28: for every item id, cartQuantities[id] is positive exactly when
\* cartItems has a line of the id, and then it is that line's quantity.
C28_CartViewsAgree ==
    \A id \in ItemInputs :
        /\ CountOf(cartQuantities, id) > 0 <=> HasId(cartItems, id)
        /\ HasId(cartItems, id) => CountOf(cartQuantities, id) = LineOf(cartItems, id).quantity

----------------------------------------------------------------------------
(* The inbox of the signed-in user *)

Manager == [Student EXCEPT !.id = "m1", !.role = "manager"]

\* after loadDataFromSupabase: a student has their own orders, a manager has
\* the orders of everybody; the inbox holds the rows of the signed-in user
InitInbox ==
    /\ now = OpenMinute
    /\ user \in {Student, Manager}
    /\ menuItems = SAMPLE_MENU_ITEMS
    /\ cartItems = <<>>
    /\ cartQuantities = <<>>
    /\ orders = <<[PastOrder EXCEPT !.status = "ordered"]>>
    /\ timeSlots = <<>>
    /\ notifications = <<>>
    /\ toast = ""
    /\ showCheckout = FALSE
    /\ selectedTimeSlot = NoSlot
    /\ selectedPaymentMethod = NoMethod
    /\ paymentStep = "details"
    /\ isProcessingPayment = FALSE
    /\ showSuccess = FALSE
    /\ payments = 0
    /\ allergenAlert = NoAlert
    /\ selectedRecItem = NoItem
    /\ confirmations = 0
    /\ reviews = <<>>
    /\ checkouts = 0
    /\ orderToken = NoToken

NextInbox ==
    \E o \in 1..MaxOrders, st \in Statuses, out \in Outcomes, ntf \in BOOLEAN :
        RoomForNotification /\ UpdateOrderStatus(o, st, out, ntf)

SpecInbox == InitInbox /\ [][NextInbox]_vars

\* C29: every notification in the local inbox belongs to the signed-in user.
C29_InboxOfSignedInUser ==
    \A i \in 1..Len(notifications) : notifications[i].userId = user.id

----------------------------------------------------------------------------
(* The pickup token of the success screen *)

\* C30: on the success screen of a checkout the pickup token shown is the
\* token of the order just created (the newest order).
C30_ShownTokenIsOrderToken ==
    showSuccess => orders # <<>> /\ orderToken = orders[1].token

====
